---- MODULE Spec2Model ----
(***************************************************************************)
(* Model of the PythonRunner of src/script.js: the loading of the          *)
(* interpreter (init), the run handler (runCode) with the embedded Python  *)
(* OutputCapture object, installPackage, and the output element written by *)
(* appendOutput; of the PythonEditor of src/editor.js (the text, the file  *)
(* name, the unsaved flag and what it keeps in localStorage); and of the   *)
(* panel resizer of PythonCodeEditor, in src/script.js and in the later    *)
(* revision src/unnamed/part_000.                                          *)
(*                                                                         *)
(* JavaScript runs every handler to completion.  runCode contains no       *)
(* await, so the only code that runs between its first and its last        *)
(* statement is the user's Python code inside pyodide.runPython(code),     *)
(* which may write to the standard streams and may call back into the      *)
(* page (origin "callback").  Handlers started by the event loop (origin   *)
(* "event") run only when no handler is on the stack.                      *)
(***************************************************************************)
EXTENDS Integers, Sequences, FiniteSets, TLC

VARIABLES
    pyodide,        \* this.pyodide: "null" or "loaded"
    hasCapture,     \* the Python global _output_capture exists
    isLoading,      \* this.isLoading
    isRunning,      \* this.isRunning
    loadingShown,   \* loadingIndicator.style.display = 'flex'
    runBtnDisabled, \* runBtn.disabled
    status,         \* statusElement.textContent
    overlayHidden,  \* loadingOverlay.style.display = 'none'
    sysStdout,      \* Python sys.stdout: "orig", "cur" (capture's buffer), "old" (an abandoned buffer)
    sysStderr,      \* Python sys.stderr, likewise
    capture,        \* the fields of _output_capture
    calls,          \* completed calls of reset, start_capture, stop_capture since the last run began
    initPc,         \* position of init(): "awaitLoad" or "done"
    depth,          \* number of runCode invocations suspended inside runPython(code)
    output,         \* children of the output element, oldest first
    runEvents,      \* lines appended by the accepted run that started last
    last,           \* what the evaluation of that run did
    writes,         \* writes made by the user code of the current run
    faults,         \* some call of reset, start_capture or stop_capture has raised
    inits,          \* init() beyond the constructor's call: invocations awaiting loadPyodide,
                    \* calls of loadPyodide so far, invocations that have finished
    install,        \* installPackage: accepted calls, packages still loading, outcome lines
    reqs,           \* handler invocations so far
    welcomeDue,     \* the timer of showWelcomeMessage has not fired yet
    editorContent,  \* PythonEditor: editor.getValue()
    fileName,       \* PythonEditor.fileName
    hasUnsavedChanges, \* PythonEditor.hasUnsavedChanges
    reading,        \* files handed to a FileReader whose onload has not run yet
    edited,         \* the user has changed the text since the page load, newFile, saveFile
                    \* or file load that came last
    storageFault,   \* a localStorage call of the editor has raised
    localStorage,   \* per key of localStorage: <<>> (no item) or <<value>>
    revision,       \* the PythonCodeEditor the page runs: "script.js" or "part_000"
    innerWidth,     \* window.innerWidth
    container,      \* .main-content: offsetWidth, offsetHeight
    editorPanel,    \* .editor-panel: offsetWidth, offsetHeight, style.flex
    outputPanel,    \* .output-panel, likewise
    isResizing,     \* PythonCodeEditor.isResizing
    lastX,          \* PythonCodeEditor.lastX
    refY,           \* clientY of the event that set lastX
    lastMove        \* what the last mousemove did: "none", "idle", "applied", "rejected"

runnerVars == <<pyodide, hasCapture, isLoading, isRunning, loadingShown, runBtnDisabled,
                status, overlayHidden, sysStdout, sysStderr, capture, calls, initPc, depth,
                output, runEvents, last, writes, faults, inits, install, reqs>>

editorVars == <<editorContent, fileName, hasUnsavedChanges, reading, edited, storageFault>>

resizerVars == <<revision, innerWidth, container, editorPanel, outputPanel, isResizing,
                 lastX, refY, lastMove>>

\* what the handlers of the PythonRunner leave alone
pageVars == <<welcomeDue, editorVars, localStorage, resizerVars>>

vars == <<pyodide, hasCapture, isLoading, isRunning, loadingShown, runBtnDisabled,
          status, overlayHidden, sysStdout, sysStderr, capture, calls, initPc, depth,
          output, runEvents, last, writes, faults, inits, install, reqs,
          welcomeDue, editorContent, fileName, hasUnsavedChanges, reading, edited, storageFault,
          localStorage, revision, innerWidth, container, editorPanel, outputPanel,
          isResizing, lastX, refY, lastMove>>

\* ---------------------------------------------------------------- bounds
MaxReqs == 2
MaxWrites == 2

\* ---------------------------------------------------------------- inputs
Null == "null"
Origins == {"event", "callback"}
\* editor contents: empty, whitespace only, some code
Sources == {<<>>, <<" ">>, <<"x", "\n">>}
\* what one write of the user code sends to a stream
WriteTexts == {<<"hi", "\n">>, <<"\n">>}
\* value of the last expression of the user code
Results == {Null, "5"}
\* string forms of the errors an evaluation can raise
\* packages asked for
PackageNames == {"numpy", "nosuchpkg"}
ErrorTexts == {<<"Traceback", "ZeroDivisionError">>, <<"SyntaxError">>}
CaptureError == <<"Traceback", "NameError">>
NullError == <<"TypeError">>

\* ---------------------------------------------------------------- strings
IsSpace(c) == c \in {" ", "\n"}

RECURSIVE TrimStart(_)
TrimStart(s) == IF s = <<>> THEN <<>>
                ELSE IF IsSpace(Head(s)) THEN TrimStart(Tail(s)) ELSE s

RECURSIVE TrimEnd(_)
TrimEnd(s) == IF s = <<>> THEN <<>>
              ELSE IF IsSpace(s[Len(s)]) THEN TrimEnd(SubSeq(s, 1, Len(s) - 1)) ELSE s

\* a trim that removes nothing
Trim_none(s) == s

\* String.prototype.trim
Trim(s) == TrimEnd(TrimStart(s))

\* String(result)
String(v) == <<v>>

\* errorStr.includes('Traceback')
Includes(s, tok) == \E i \in 1..Len(s) : s[i] = tok

\* a formatter that prefixes every error
formatPythonError_alwaysPrefixed(errorStr) == <<"Error: ">> \o errorStr

\* lines 556-570, for an error whose toString() returns errorStr
formatPythonError(errorStr) ==
    IF Includes(errorStr, "Traceback") THEN errorStr ELSE <<"Error: ">> \o errorStr

\* ---------------------------------------------------------------- output element
maxLines == 1000

\* one call appendOutput(content, type), made at line site of src/script.js
Line(content, type, site) == [cls |-> type, text |-> content, site |-> site]

\* the div that call creates: its class; the call site stands for its text
Element(ev) == [cls |-> ev.cls, site |-> ev.site]

\* the loop of appendOutput over the live children collection
RECURSIVE RemoveExcess(_, _)
RemoveExcess(lines, i) ==
    IF i < Len(lines) - maxLines THEN RemoveExcess(Tail(lines), i + 1) ELSE lines

appendOutput(lines, ev) == RemoveExcess(Append(lines, Element(ev)), 0)

RECURSIVE appendAll(_, _)
appendAll(lines, evs) ==
    IF evs = <<>> THEN lines ELSE appendAll(appendOutput(lines, Head(evs)), Tail(evs))

\* ---------------------------------------------------------------- OutputCapture (embedded Python)
\* py is the interpreter state the capture object touches:
\* [out |-> sys.stdout, err |-> sys.stderr, cap |-> fields of _output_capture]
Py == [out |-> sysStdout, err |-> sysStderr, cap |-> capture, calls |-> calls]

NoCalls == [reset |-> 0, start |-> 0, stop |-> 0]

\* the interpreter state as a run finds it, with the calls counted afresh
NewRun(py) == [py EXCEPT !.calls = NoCalls]

\* a reference to the buffer that reset() is about to replace
Abandon(ref) == IF ref = "cur" THEN "old" ELSE ref

reset(py) ==
    [out |-> Abandon(py.out), err |-> Abandon(py.err),
     cap |-> [stdout |-> <<>>, stderr |-> <<>>,
              original_stdout |-> Abandon(py.out),
              original_stderr |-> Abandon(py.err)],
     calls |-> [py.calls EXCEPT !.reset = @ + 1]]

start_capture(py) == [py EXCEPT !.out = "cur", !.err = "cur", !.calls.start = @ + 1]

\* a stop_capture that returns the texts and leaves the streams alone
stop_capture_keeps(py) == py

stop_capture(py) ==
    [py EXCEPT !.out = py.cap.original_stdout, !.err = py.cap.original_stderr,
               !.calls.stop = @ + 1]

\* sys.stdout.write / sys.stderr.write of the user code
write(py, stream, text) ==
    IF stream = "stdout"
    THEN IF py.out = "cur" THEN [py EXCEPT !.cap.stdout = @ \o text] ELSE py
    ELSE IF py.err = "cur" THEN [py EXCEPT !.cap.stderr = @ \o text] ELSE py

SetPy(py) ==
    /\ sysStdout' = py.out
    /\ sysStderr' = py.err
    /\ capture' = py.cap
    /\ calls' = py.calls

\* ---------------------------------------------------------------- PythonRunner
\* abandoned: the run found sys.stdout or sys.stderr still redirected;
\* wroteOut, wroteErr: what the user code wrote to sys.stdout, sys.stderr;
\* stdout, stderr: what the capture buffers held when the evaluation ended
NoRun == [phase |-> "none", outcome |-> "none", result |-> Null, err |-> <<>>,
          stdout |-> <<>>, stderr |-> <<>>, stopFailed |-> FALSE,
          wroteOut |-> <<>>, wroteErr |-> <<>>, abandoned |-> FALSE]

RunnerInit ==
    /\ pyodide = "null"
    /\ hasCapture = FALSE
    /\ isLoading = TRUE
    /\ isRunning = FALSE
    /\ loadingShown = TRUE
    /\ runBtnDisabled = FALSE
    /\ status = "Loading Python environment..."
    /\ overlayHidden = FALSE
    /\ sysStdout = "orig"
    /\ sysStderr = "orig"
    /\ capture = [stdout |-> <<>>, stderr |-> <<>>,
                  original_stdout |-> "orig", original_stderr |-> "orig"]
    /\ calls = NoCalls
    /\ initPc = "awaitLoad"
    /\ depth = 0
    /\ output = <<>>
    /\ runEvents = <<>>
    /\ last = NoRun
    /\ writes = 0
    /\ faults = FALSE
    /\ inits = [pending |-> 0, loads |-> 1, settled |-> 0]
    /\ install = [calls |-> <<>>, pending |-> <<>>, events |-> <<>>]
    /\ reqs = 0
    /\ welcomeDue = TRUE

\* who may call a handler now: the event loop when no handler is on the
\* stack, the user code while it is being evaluated
MayCall(origin) == IF origin = "event" THEN depth = 0 ELSE depth > 0

\* a newly loaded interpreter: original streams, no _output_capture yet
FreshPy == [out |-> "orig", err |-> "orig",
            cap |-> [stdout |-> <<>>, stderr |-> <<>>,
                     original_stdout |-> "orig", original_stderr |-> "orig"],
            calls |-> calls]

\* an invocation of init() other than the constructor's (the method has no
\* guard): lines 405-409 up to the await
init(origin) ==
    /\ UNCHANGED pageVars
    /\ reqs < MaxReqs
    /\ MayCall(origin)
    /\ reqs' = reqs + 1
    /\ status' = "Loading Python environment..."
    /\ loadingShown' = TRUE
    /\ inits' = [inits EXCEPT !.pending = @ + 1, !.loads = @ + 1]
    /\ UNCHANGED <<pyodide, hasCapture, isLoading, isRunning, runBtnDisabled, overlayHidden,
                   sysStdout, sysStderr, capture, calls, initPc, depth, output, runEvents,
                   last, writes, faults, install>>

\* init() resumes after loadPyodide: "ok", "loadFails" (loadPyodide rejects),
\* "setupFails" (setupPythonEnvironment raises).  The constructor's
\* invocation resumes first.
InitResume(how) ==
    /\ UNCHANGED pageVars
    /\ initPc = "awaitLoad" \/ inits.pending > 0
    /\ depth = 0
    /\ initPc' = "done"
    /\ inits' = IF initPc = "awaitLoad"
                THEN [inits EXCEPT !.settled = @ + 1]
                ELSE [inits EXCEPT !.settled = @ + 1, !.pending = @ - 1]
    /\ isLoading' = FALSE
    /\ loadingShown' = FALSE
    /\ overlayHidden' = TRUE
    /\ pyodide' = IF how = "loadFails" THEN pyodide ELSE "loaded"
    /\ hasCapture' = IF how = "loadFails" THEN hasCapture ELSE (how = "ok")
    /\ IF how = "ok"
       THEN /\ SetPy(reset(FreshPy))
            /\ status' = "Python ready"
            /\ output' = appendAll(output,
                   <<Line(<<"Python environment initialized successfully!">>, "system", 421),
                     Line(<<"You can now run Python code.">>, "system", 422)>>)
       ELSE /\ IF how = "setupFails" THEN SetPy(FreshPy)
                                     ELSE UNCHANGED <<sysStdout, sysStderr, capture, calls>>
            /\ status' = "Python failed to load"
            /\ output' = appendOutput(output,
                   Line(<<"Error initializing Python: ">>, "stderr", 429))
    /\ UNCHANGED <<isRunning, runBtnDisabled, depth, runEvents, last, writes, faults,
                   install, reqs>>

\* this.isReady()
isReady == ~isLoading /\ pyodide # "null"

\* runCode without its first guard
StillLoading_never == FALSE

\* runCode without its second guard
AlreadyRunning_never == FALSE

\* the guards of runCode
StillLoading == isLoading
AlreadyRunning == isRunning

\* the display with the two captured streams in the other order
DisplayOutput_stderrFirst(stdout, stderr, result) ==
    (IF stderr # <<>> THEN <<Line(Trim(stderr), "stderr", 520)>> ELSE <<>>)
    \o (IF stdout # <<>> THEN <<Line(Trim(stdout), "stdout", 516)>> ELSE <<>>)
    \o (IF result # Null /\ stdout = <<>>
        THEN <<Line(String(result), "stdout", 525)>> ELSE <<>>)
    \o (IF stdout = <<>> /\ stderr = <<>>
        THEN <<Line(<<"Code executed successfully (no output)">>, "system", 529)>>
        ELSE <<>>)

\* the display that shows the result whether or not stdout is empty
DisplayOutput_alwaysResult(stdout, stderr, result) ==
    (IF stdout # <<>> THEN <<Line(Trim(stdout), "stdout", 516)>> ELSE <<>>)
    \o (IF stderr # <<>> THEN <<Line(Trim(stderr), "stderr", 520)>> ELSE <<>>)
    \o (IF result # Null
        THEN <<Line(String(result), "stdout", 525)>> ELSE <<>>)
    \o (IF stdout = <<>> /\ stderr = <<>>
        THEN <<Line(<<"Code executed successfully (no output)">>, "system", 529)>>
        ELSE <<>>)

\* the display without the calls of trim
DisplayOutput_untrimmed(stdout, stderr, result) ==
    (IF stdout # <<>> THEN <<Line(stdout, "stdout", 516)>> ELSE <<>>)
    \o (IF stderr # <<>> THEN <<Line(stderr, "stderr", 520)>> ELSE <<>>)
    \o (IF result # Null /\ stdout = <<>>
        THEN <<Line(String(result), "stdout", 525)>> ELSE <<>>)
    \o (IF stdout = <<>> /\ stderr = <<>>
        THEN <<Line(<<"Code executed successfully (no output)">>, "system", 529)>>
        ELSE <<>>)

\* the display without the notice of lines 528-530
DisplayOutput_noNotice(stdout, stderr, result) ==
    (IF stdout # <<>> THEN <<Line(Trim(stdout), "stdout", 516)>> ELSE <<>>)
    \o (IF stderr # <<>> THEN <<Line(Trim(stderr), "stderr", 520)>> ELSE <<>>)
    \o (IF result # Null /\ stdout = <<>>
        THEN <<Line(String(result), "stdout", 525)>> ELSE <<>>)

\* lines 505-530: what is displayed after a normal return
DisplayOutput(stdout, stderr, result) ==
    (IF stdout # <<>> THEN <<Line(Trim(stdout), "stdout", 516)>> ELSE <<>>)
    \o (IF stderr # <<>> THEN <<Line(Trim(stderr), "stderr", 520)>> ELSE <<>>)
    \o (IF result # Null /\ stdout = <<>>
        THEN <<Line(String(result), "stdout", 525)>> ELSE <<>>)
    \o (IF stdout = <<>> /\ stderr = <<>>
        THEN <<Line(<<"Code executed successfully (no output)">>, "system", 529)>>
        ELSE <<>>)

\* a catch clause that shows a fixed text instead of the error
CatchPythonError_noText(errorStr) ==
    <<Line(<<"Error: ">>, "stderr", 542)>>

\* lines 532-543: catch (pythonError)
CatchPythonError(errorStr) ==
    <<Line(formatPythonError(errorStr), "stderr", 542)>>

\* lines 545-547: catch (error)
CatchRuntimeError(message) ==
    <<Line(<<"Runtime Error: ">> \o message, "stderr", 546)>>

ExecutionComplete == Line(<<">>> Execution complete.">>, "system", 552)

\* a finally block that forgets to clear isRunning
Finally_keepsRunning(earlier, evs) ==
    /\ isRunning' = isRunning
    /\ loadingShown' = FALSE
    /\ runBtnDisabled' = FALSE
    /\ output' = appendAll(output, Append(evs, ExecutionComplete))
    /\ runEvents' = earlier \o Append(evs, ExecutionComplete)

\* lines 548-553: finally.
\* earlier: the lines the run has appended before this handler step,
\* evs: the lines the try block and its catch clauses append in this step
Finally(earlier, evs) ==
    /\ isRunning' = FALSE
    /\ loadingShown' = FALSE
    /\ runBtnDisabled' = FALSE
    /\ output' = appendAll(output, Append(evs, ExecutionComplete))
    /\ runEvents' = earlier \o Append(evs, ExecutionComplete)

\* an early return that also clears the running flag
Rejected_clearsRunning(content, site) ==
    /\ output' = appendOutput(output, Line(content, "system", site))
    /\ isRunning' = FALSE
    /\ UNCHANGED <<loadingShown, runBtnDisabled, sysStdout, sysStderr,
                   capture, calls, depth, runEvents, last, writes, faults>>

\* the early returns of runCode: one system message, nothing else
Rejected(content, site) ==
    /\ output' = appendOutput(output, Line(content, "system", site))
    /\ UNCHANGED <<isRunning, loadingShown, runBtnDisabled, sysStdout, sysStderr,
                   capture, calls, depth, runEvents, last, writes, faults>>

\* runCode up to the call of runPython(code).  how is what the two capture
\* calls of lines 494-495 do: "ok", "resetFails", "startFails"
RunCode(origin, src, how) ==
    /\ UNCHANGED pageVars
    /\ reqs < MaxReqs
    /\ MayCall(origin)
    /\ reqs' = reqs + 1
    /\ UNCHANGED <<pyodide, hasCapture, isLoading, status, overlayHidden, initPc,
                   inits, install>>
    /\ IF StillLoading
       THEN Rejected(<<"Python environment is still loading. Please wait...">>, 471)
       ELSE IF AlreadyRunning
       THEN Rejected(<<"Code is already running. Please wait...">>, 476)
       ELSE IF Trim(src) = <<>>
       THEN Rejected(<<"No code to execute.">>, 482)
       ELSE LET running == Line(<<">>> Running Python code...">>, "system", 491)
                callable == pyodide = "loaded" /\ hasCapture
            IN  /\ writes' = 0
                /\ IF callable /\ how = "ok"
                   THEN /\ isRunning' = TRUE
                        /\ loadingShown' = TRUE
                        /\ runBtnDisabled' = TRUE
                        /\ output' = appendOutput(output, running)
                        /\ runEvents' = <<running>>
                        /\ SetPy(start_capture(reset(NewRun(Py))))
                        /\ depth' = depth + 1
                        /\ faults' = faults
                        /\ last' = [NoRun EXCEPT !.phase = "eval",
                                                 !.abandoned = (sysStdout # "orig" \/ sysStderr # "orig")]
                   ELSE LET message == IF pyodide = "null" THEN NullError ELSE CaptureError
                            evs == <<running>> \o CatchRuntimeError(message)
                        IN  /\ Finally(<<>>, evs)
                            /\ IF callable /\ how = "startFails"
                               THEN SetPy(reset(NewRun(Py)))
                               ELSE SetPy(NewRun(Py))
                            /\ depth' = depth
                            /\ faults' = (faults \/ pyodide = "loaded")
                            /\ last' = [NoRun EXCEPT !.phase = "done",
                                                     !.outcome = "captureStartFailed"]

\* the user code writes to a standard stream
PyWrite(stream, text) ==
    /\ UNCHANGED pageVars
    /\ depth > 0
    /\ writes < MaxWrites
    /\ writes' = writes + 1
    /\ SetPy(write(Py, stream, text))
    /\ last' = IF stream = "stdout" THEN [last EXCEPT !.wroteOut = @ \o text]
                                    ELSE [last EXCEPT !.wroteErr = @ \o text]
    /\ UNCHANGED <<pyodide, hasCapture, isLoading, isRunning, loadingShown, runBtnDisabled,
                   status, overlayHidden, initPc, depth, output, runEvents, faults, inits,
                   install, reqs>>

\* runPython(code) returns result; stopOk: the stop script of lines 505-509
\* succeeds; stop2Ok: the stop call of line 535 succeeds
RunReturn(result, stopOk, stop2Ok) ==
    /\ UNCHANGED pageVars
    /\ depth > 0
    /\ depth' = depth - 1
    /\ IF stopOk
       THEN /\ SetPy(stop_capture(stop_capture(Py)))
            /\ Finally(runEvents, DisplayOutput(capture.stdout, capture.stderr, result))
       ELSE /\ IF stop2Ok THEN SetPy(stop_capture(Py))
                          ELSE UNCHANGED <<sysStdout, sysStderr, capture, calls>>
            /\ Finally(runEvents, CatchPythonError(CaptureError))
    /\ last' = [last EXCEPT !.phase = "done", !.outcome = "returned", !.result = result,
                            !.stdout = capture.stdout, !.stderr = capture.stderr,
                            !.stopFailed = ~stopOk]
    /\ faults' = (faults \/ ~stopOk)
    /\ UNCHANGED <<pyodide, hasCapture, isLoading, status, overlayHidden, initPc, writes,
                   inits, install, reqs>>

\* runPython(code) raises an error whose string form is errorStr
RunRaise(errorStr, stop2Ok) ==
    /\ UNCHANGED pageVars
    /\ depth > 0
    /\ depth' = depth - 1
    /\ IF stop2Ok THEN SetPy(stop_capture(Py))
                  ELSE UNCHANGED <<sysStdout, sysStderr, capture, calls>>
    /\ Finally(runEvents, CatchPythonError(errorStr))
    /\ last' = [last EXCEPT !.phase = "done", !.outcome = "raised", !.err = errorStr,
                            !.stdout = capture.stdout, !.stderr = capture.stderr,
                            !.stopFailed = ~stop2Ok]
    /\ faults' = (faults \/ ~stop2Ok)
    /\ UNCHANGED <<pyodide, hasCapture, isLoading, status, overlayHidden, initPc, writes,
                   inits, install, reqs>>

clearOutput(origin) ==
    /\ UNCHANGED pageVars
    /\ reqs < MaxReqs
    /\ MayCall(origin)
    /\ reqs' = reqs + 1
    /\ output' = appendOutput(<<>>, Line(<<"Output cleared.">>, "system", 601))
    /\ UNCHANGED <<pyodide, hasCapture, isLoading, isRunning, loadingShown, runBtnDisabled,
                   status, overlayHidden, sysStdout, sysStderr, capture, calls, initPc, depth,
                   runEvents, last, writes, faults, inits, install>>

\* a promise chain whose then callback runs before the catch callback
SettleEvents_thenAndCatch(name, ok) ==
    <<Line(<<"Successfully installed: ", name>>, "system", 642)>>
    \o (IF ok THEN <<>> ELSE <<Line(<<"Failed to install ", name, ": ">>, "stderr", 644)>>)

\* what the promise of loadPackage(name) appends when it settles
SettleEvents(name, ok) ==
    IF ok THEN <<Line(<<"Successfully installed: ", name>>, "system", 642)>>
          ELSE <<Line(<<"Failed to install ", name, ": ">>, "stderr", 644)>>

\* installPackage(packageName) up to its return
installPackage(origin, name) ==
    /\ UNCHANGED pageVars
    /\ reqs < MaxReqs
    /\ MayCall(origin)
    /\ reqs' = reqs + 1
    /\ IF isLoading
       THEN /\ output' = appendOutput(output,
                   Line(<<"Python environment is still loading. Please wait...">>, "system", 634))
            /\ install' = install
       ELSE LET installing == Line(<<"Installing package: ", name>>, "system", 638)
                failed == Line(<<"Failed to install ", name, ": ">>, "stderr", 647)
            IN  IF pyodide = "null"
                THEN /\ output' = appendAll(output, <<installing, failed>>)
                     /\ install' = [install EXCEPT !.calls = Append(@, name),
                                                   !.events = Append(@, failed)]
                ELSE /\ output' = appendOutput(output, installing)
                     /\ install' = [install EXCEPT !.calls = Append(@, name),
                                                   !.pending = Append(@, name)]
    /\ UNCHANGED <<pyodide, hasCapture, isLoading, isRunning, loadingShown, runBtnDisabled,
                   status, overlayHidden, sysStdout, sysStderr, capture, calls, initPc, depth,
                   runEvents, last, writes, faults, inits>>

RemoveAt(seq, i) == SubSeq(seq, 1, i - 1) \o SubSeq(seq, i + 1, Len(seq))

\* the promise of the i-th package still loading settles: the then or the
\* catch callback of lines 641-645 runs
InstallSettle(i, ok) ==
    /\ UNCHANGED pageVars
    /\ depth = 0
    /\ i \in 1..Len(install.pending)
    /\ LET evs == SettleEvents(install.pending[i], ok)
       IN  /\ output' = appendAll(output, evs)
           /\ install' = [install EXCEPT !.pending = RemoveAt(@, i),
                                         !.events = @ \o evs]
    /\ UNCHANGED <<pyodide, hasCapture, isLoading, isRunning, loadingShown, runBtnDisabled,
                   status, overlayHidden, sysStdout, sysStderr, capture, calls, initPc, depth,
                   runEvents, last, writes, faults, inits, reqs>>

\* ---------------------------------------------------------------- welcome message (PythonCodeEditor)
\* the callback of the timer of showWelcomeMessage: the div is appended to
\* the output element itself, not through appendOutput
WelcomeTimeout ==
    /\ welcomeDue
    /\ depth = 0
    /\ welcomeDue' = FALSE
    /\ output' = IF isReady THEN Append(output, [cls |-> "system", site |-> 266])
                            ELSE output
    /\ UNCHANGED <<pyodide, hasCapture, isLoading, isRunning, loadingShown, runBtnDisabled,
                   status, overlayHidden, sysStdout, sysStderr, capture, calls, initPc, depth,
                   runEvents, last, writes, faults, inits, install, reqs>>
    /\ UNCHANGED <<editorVars, localStorage, resizerVars>>

\* a call of appendOutput(content, type) made by a handler that runs after
\* init() has finished
AppendOutputCall(type) ==
    /\ initPc = "done"
    /\ output' = appendOutput(output, Line(<<"text">>, type, 572))
    /\ UNCHANGED <<pyodide, hasCapture, isLoading, isRunning, loadingShown, runBtnDisabled,
                   status, overlayHidden, sysStdout, sysStderr, capture, calls, initPc, depth,
                   runEvents, last, writes, faults, inits, install, reqs>>
    /\ UNCHANGED pageVars

\* ---------------------------------------------------------------- PythonEditor (src/editor.js)
\* A text is a sequence of characters: " ", "\n", "#", and tokens that stand
\* for runs of other characters.
WelcomeNew == <<"#", " ", "Welcome to Python Editor", "\n",
                "#", " ", "Write your Python code here...", "\n", "\n">>
WelcomeHello == WelcomeNew \o <<"print(\"Hello, World!\")">>

\* what the user may type into the editor
Texts == {<<>>, <<"x">>, <<" ", " ", "x">>, <<"#", "x", "\n", "x">>}
\* the files the user may pick; NoFile: the dialog was cancelled (files[0] is undefined)
NoFile == [name |-> "", text |-> <<>>]
Files == {[name |-> "a.py", text |-> <<"x", "\n">>], [name |-> "b.py", text |-> <<>>]}

NoItems == [editor_content |-> <<>>, editor_filename |-> <<>>, editor_layout |-> <<>>,
            editor_layout_mobile |-> <<>>, editor_layout_desktop |-> <<>>]

\* the fields of the PythonEditor and the storage its methods touch
Ed == [content |-> editorContent, fileName |-> fileName, hasUnsavedChanges |-> hasUnsavedChanges,
       localStorage |-> localStorage, storageFault |-> storageFault]

SetEd(e) ==
    /\ editorContent' = e.content
    /\ fileName' = e.fileName
    /\ hasUnsavedChanges' = e.hasUnsavedChanges
    /\ localStorage' = e.localStorage
    /\ storageFault' = e.storageFault

\* the object the constructor sets up before init(), on a page whose storage is store
NewEditor(store, fault) ==
    [content |-> <<>>, fileName |-> "untitled.py", hasUnsavedChanges |-> FALSE,
     localStorage |-> store, storageFault |-> fault]

\* ok: the calls of localStorage in this handler do not raise
saveToStorage(e, ok) ==
    IF ok THEN [e EXCEPT !.localStorage.editor_content = <<e.content>>,
                         !.localStorage.editor_filename = <<e.fileName>>]
          ELSE [e EXCEPT !.storageFault = TRUE]

\* the 'change' listener of lines 98-102
OnChange(e, ok) == saveToStorage([e EXCEPT !.hasUnsavedChanges = TRUE], ok)

\* editor.setValue(text) of CodeMirror: the document is replaced and the
\* 'change' listeners have run when the call returns
setValue(e, text, ok) == OnChange([e EXCEPT !.content = text], ok)

\* lines 323-338; the first statement to touch the storage raises when ~ok.
\* The file name is read after setValue has run the 'change' listener.
loadFromStorage(e, ok) ==
    IF ~ok THEN setValue(e, WelcomeHello, ok)
    ELSE LET savedContent == e.localStorage.editor_content
             shown == IF savedContent # <<>> /\ savedContent[1] # <<>>
                      THEN setValue(e, savedContent[1], ok)
                      ELSE setValue(e, WelcomeHello, ok)
             savedFilename == shown.localStorage.editor_filename
         IN  IF savedFilename # <<>> /\ savedFilename[1] # ""
             THEN [shown EXCEPT !.fileName = savedFilename[1]]
             ELSE shown

\* the editor of a page opened for the first time
EditorInit ==
    LET e == loadFromStorage(NewEditor(NoItems, FALSE), TRUE)
    IN  /\ editorContent = e.content
        /\ fileName = e.fileName
        /\ hasUnsavedChanges = e.hasUnsavedChanges
        /\ localStorage = e.localStorage
        /\ storageFault = e.storageFault
        /\ reading = {}
        /\ edited = FALSE

\* the page is loaded again: new PythonEditor(), which ends with loadFromStorage
PageLoad(ok) ==
    /\ SetEd(loadFromStorage(NewEditor(localStorage, storageFault), ok))
    /\ reading' = {}
    /\ edited' = FALSE
    /\ UNCHANGED <<runnerVars, welcomeDue, resizerVars>>

\* the user types or deletes: the editor holds text
Edit(text, ok) ==
    /\ text # editorContent
    /\ SetEd(OnChange([Ed EXCEPT !.content = text], ok))
    /\ edited' = TRUE
    /\ UNCHANGED <<reading, runnerVars, welcomeDue, resizerVars>>

\* the lines the cursor may be in
CursorLines == 1..4

\* the lines of a text
RECURSIVE SplitLines(_)
SplitLines(s) ==
    IF \A i \in 1..Len(s) : s[i] # "\n" THEN <<s>>
    ELSE LET i == CHOOSE k \in 1..Len(s) : s[k] = "\n" /\ \A j \in 1..(k - 1) : s[j] # "\n"
         IN  <<SubSeq(s, 1, i - 1)>> \o SplitLines(SubSeq(s, i + 1, Len(s)))

RECURSIVE JoinLines(_)
JoinLines(ls) ==
    IF Len(ls) = 1 THEN ls[1] ELSE ls[1] \o <<"\n">> \o JoinLines(Tail(ls))

\* line.trim().startsWith('#')
IsComment(line) == Trim(line) # <<>> /\ Head(Trim(line)) = "#"

\* line.replace(/^\s*#\s?/, '')
RemoveComment(line) ==
    LET t == TrimStart(line)
    IN  IF t = <<>> \/ Head(t) # "#" THEN line
        ELSE IF Tail(t) # <<>> /\ IsSpace(Head(Tail(t))) THEN Tail(Tail(t)) ELSE Tail(t)

\* line.match(/^\s*/)[0]
indent(line) == SubSeq(line, 1, Len(line) - Len(TrimStart(line)))

\* lines 233-242: the text that replaces the line of the cursor
newLine(line) ==
    IF IsComment(line) THEN RemoveComment(line)
                       ELSE indent(line) \o <<"#", " ">> \o Trim(line)

\* Ctrl-/ with the cursor in line cursorLine (counted from 1)
toggleComment(cursorLine, ok) ==
    /\ cursorLine \in 1..Len(SplitLines(editorContent))
    /\ LET lines == SplitLines(editorContent)
           text == JoinLines([lines EXCEPT ![cursorLine] = newLine(lines[cursorLine])])
       IN  SetEd(OnChange([Ed EXCEPT !.content = text], ok))
    /\ edited' = TRUE
    /\ UNCHANGED <<reading, runnerVars, welcomeDue, resizerVars>>

\* confirmed: the answer to the confirm dialog, asked only with unsaved changes
newFile(confirmed, ok) ==
    /\ IF hasUnsavedChanges /\ ~confirmed
       THEN UNCHANGED <<editorContent, fileName, hasUnsavedChanges, localStorage, storageFault,
                        edited>>
       ELSE /\ SetEd([setValue(Ed, WelcomeNew, ok) EXCEPT !.fileName = "untitled.py",
                                                          !.hasUnsavedChanges = FALSE])
            /\ edited' = FALSE
    /\ UNCHANGED <<reading, runnerVars, welcomeDue, resizerVars>>

saveFile ==
    /\ hasUnsavedChanges' = FALSE
    /\ edited' = FALSE
    /\ UNCHANGED <<editorContent, fileName, localStorage, storageFault, reading>>
    /\ UNCHANGED <<runnerVars, welcomeDue, resizerVars>>

\* loadFile(file) up to its return: the file is being read
loadFile(file) ==
    /\ reading' = IF file = NoFile THEN reading ELSE reading \cup {file}
    /\ UNCHANGED <<editorContent, fileName, hasUnsavedChanges, localStorage, storageFault, edited>>
    /\ UNCHANGED <<runnerVars, welcomeDue, resizerVars>>

\* reader.onload of lines 281-287
ReaderOnload(file, ok) ==
    /\ file \in reading
    /\ reading' = reading \ {file}
    /\ SetEd([setValue(Ed, file.text, ok) EXCEPT !.fileName = file.name,
                                                 !.hasUnsavedChanges = FALSE])
    /\ edited' = FALSE
    /\ UNCHANGED <<runnerVars, welcomeDue, resizerVars>>

\* the beforeunload listener of script.js asks before the page is left
LeaveWarning == hasUnsavedChanges

\* ---------------------------------------------------------------- resizer (PythonCodeEditor.setupResizer)
Revisions == {"script.js", "part_000"}
\* window widths: a wide and a narrow window
Widths == {600, 800}
\* clientX and clientY of the mouse events
Pointers == {300, 320, 400}

\* const minWidth of script.js
minWidth == 250
\* const minWidth of part_000
minWidthDesktop == 280
\* const minHeight of part_000
minHeight == 200
\* the window width up to which part_000 lays the panels out one above the other
MobileWidth == 768

isMobile == innerWidth <= MobileWidth

\* (part / whole) * 100, kept as a fraction
Percent(part, whole) == [num |-> part * 100, den |-> whole]

\* the panels of a page just loaded with no saved layout: side by side and
\* equally wide, or (part_000, narrow window: handleResponsiveLayout) one
\* above the other with the output panel 280 px high
ResizerInit(rev, width) ==
    /\ revision = rev
    /\ innerWidth = width
    /\ container = [offsetWidth |-> width, offsetHeight |-> 600]
    /\ IF rev = "part_000" /\ width <= MobileWidth
       THEN /\ editorPanel = [offsetWidth |-> width, offsetHeight |-> 320, flex |-> <<>>]
            /\ outputPanel = [offsetWidth |-> width, offsetHeight |-> 280, flex |-> <<>>]
       ELSE /\ editorPanel = [offsetWidth |-> width \div 2, offsetHeight |-> 600, flex |-> <<>>]
            /\ outputPanel = [offsetWidth |-> width \div 2, offsetHeight |-> 600, flex |-> <<>>]
    /\ isResizing = FALSE
    /\ lastX = 0
    /\ refY = 0
    /\ lastMove = "none"

\* mousedown on the resizer
mousedown(x, y) ==
    /\ isResizing' = TRUE
    /\ lastX' = x
    /\ refY' = y
    /\ UNCHANGED <<revision, innerWidth, container, editorPanel, outputPanel, lastMove>>
    /\ UNCHANGED <<runnerVars, welcomeDue, editorVars, localStorage>>

\* a test that looks at the editor panel only
Fits_editorOnly(newEditor, newOutput, min) == newEditor >= min

\* newEditorWidth >= minWidth && newOutputWidth >= minWidth
Fits(newEditor, newOutput, min) == newEditor >= min /\ newOutput >= min

\* the body of the mousemove listener for one direction.  dim: the size it
\* reads, delta: the movement it computes, ref: the new reference position,
\* key: the item saveLayout writes, ok: setItem does not raise.
\* Once the flex values are set the panels have the new sizes.
Drag(dim, delta, min, ref, y, key, ok) ==
    LET newEditor == editorPanel[dim] + delta
        newOutput == outputPanel[dim] - delta
        editorFlex == Percent(newEditor, container[dim])
        outputFlex == Percent(newOutput, container[dim])
    IN  IF Fits(newEditor, newOutput, min)
        THEN /\ editorPanel' = [editorPanel EXCEPT ![dim] = newEditor, !.flex = <<editorFlex>>]
             /\ outputPanel' = [outputPanel EXCEPT ![dim] = newOutput, !.flex = <<outputFlex>>]
             /\ lastX' = ref
             /\ refY' = y
             /\ localStorage' =
                   IF ok THEN [localStorage EXCEPT
                                  ![key] = <<[editorFlex |-> editorFlex, outputFlex |-> outputFlex]>>]
                         ELSE localStorage
             /\ lastMove' = "applied"
        ELSE /\ lastMove' = "rejected"
             /\ UNCHANGED <<editorPanel, outputPanel, lastX, refY, localStorage>>

\* mousemove anywhere in the document
mousemove(x, y, ok) ==
    /\ IF ~isResizing
       THEN /\ lastMove' = "idle"
            /\ UNCHANGED <<editorPanel, outputPanel, lastX, refY, localStorage>>
       ELSE IF revision = "script.js"
       THEN Drag("offsetWidth", x - lastX, minWidth, x, y, "editor_layout", ok)
       ELSE IF isMobile
       THEN Drag("offsetHeight", y - lastX, minHeight, y, y, "editor_layout_mobile", ok)
       ELSE Drag("offsetWidth", x - lastX, minWidthDesktop, x, y, "editor_layout_desktop", ok)
    /\ UNCHANGED <<revision, innerWidth, container, isResizing>>
    /\ UNCHANGED <<runnerVars, welcomeDue, editorVars>>

mouseup ==
    /\ isResizing' = FALSE
    /\ UNCHANGED <<revision, innerWidth, container, editorPanel, outputPanel, lastX, refY,
                   lastMove>>
    /\ UNCHANGED <<runnerVars, welcomeDue, editorVars, localStorage>>

\* ---------------------------------------------------------------- specifications
\* the page opened for the first time in a wide window, running script.js
Init == RunnerInit /\ EditorInit /\ ResizerInit("script.js", 800)

\* the page as its own listeners drive it: run and clear-output requests
Next ==
    \/ \E how \in {"ok", "loadFails", "setupFails"} : InitResume(how)
    \/ \E origin \in Origins, src \in Sources, how \in {"ok", "resetFails", "startFails"} :
          RunCode(origin, src, how)
    \/ \E stream \in {"stdout", "stderr"}, text \in WriteTexts : PyWrite(stream, text)
    \/ \E result \in Results, stopOk \in BOOLEAN, stop2Ok \in BOOLEAN :
          RunReturn(result, stopOk, stop2Ok)
    \/ \E errorStr \in ErrorTexts, stop2Ok \in BOOLEAN : RunRaise(errorStr, stop2Ok)
    \/ \E origin \in Origins : clearOutput(origin)

Spec == Init /\ [][Next]_vars

\* runPython(code) returns or raises: the handler suspended in it goes on
RunFinish ==
    \/ \E result \in Results, stopOk \in BOOLEAN, stop2Ok \in BOOLEAN :
          RunReturn(result, stopOk, stop2Ok)
    \/ \E errorStr \in ErrorTexts, stop2Ok \in BOOLEAN : RunRaise(errorStr, stop2Ok)

FairSpec == Spec /\ WF_vars(RunFinish)

\* the runner with init() invoked again by a caller of the object
ReinitNext ==
    \/ \E how \in {"ok", "loadFails", "setupFails"} : InitResume(how)
    \/ \E origin \in Origins : init(origin)
    \/ \E origin \in Origins, src \in Sources, how \in {"ok", "resetFails", "startFails"} :
          RunCode(origin, src, how)
    \/ RunFinish

ReinitSpec == Init /\ [][ReinitNext]_vars

\* a package that is loading ends up loaded or failed
InstallFinish == \E i \in 1..MaxReqs, ok \in BOOLEAN : InstallSettle(i, ok)

\* the runner with installPackage called by a caller of the object
InstallNext ==
    \/ \E how \in {"ok", "loadFails", "setupFails"} : InitResume(how)
    \/ \E origin \in Origins, name \in PackageNames : installPackage(origin, name)
    \/ InstallFinish
    \/ \E origin \in Origins, src \in Sources, how \in {"ok", "resetFails", "startFails"} :
          RunCode(origin, src, how)
    \/ RunFinish
    \/ \E origin \in Origins : clearOutput(origin)

InstallSpec == Init /\ [][InstallNext]_vars /\ WF_vars(RunFinish) /\ WF_vars(InstallFinish)

\* the output element filled by calls of appendOutput once init() has
\* finished, with the welcome timer
LogNext ==
    \/ \E how \in {"ok", "loadFails", "setupFails"} : InitResume(how)
    \/ \E type \in {"stdout"} : AppendOutputCall(type)
    \/ WelcomeTimeout

LogSpec == Init /\ [][LogNext]_vars

\* the editor: typing, Ctrl-/, the file buttons, reloading the page
EditorNext ==
    \/ \E ok \in BOOLEAN : PageLoad(ok)
    \/ \E text \in Texts, ok \in BOOLEAN : Edit(text, ok)
    \/ \E cursorLine \in CursorLines, ok \in BOOLEAN : toggleComment(cursorLine, ok)
    \/ \E confirmed \in BOOLEAN, ok \in BOOLEAN : newFile(confirmed, ok)
    \/ saveFile
    \/ \E file \in Files \cup {NoFile} : loadFile(file)
    \/ \E file \in Files, ok \in BOOLEAN : ReaderOnload(file, ok)

EditorSpec == Init /\ [][EditorNext]_vars

\* the resizer of either revision, in a wide or a narrow window
ResizeInit ==
    /\ RunnerInit
    /\ EditorInit
    /\ \E rev \in Revisions, width \in Widths :
          /\ rev = "script.js" => width > MobileWidth
          /\ ResizerInit(rev, width)

ResizeNext ==
    \/ \E x \in Pointers, y \in Pointers : mousedown(x, y)
    \/ \E x \in Pointers, y \in Pointers, ok \in BOOLEAN : mousemove(x, y, ok)
    \/ mouseup

ResizeSpec == ResizeInit /\ [][ResizeNext]_vars

TypeOK ==
    /\ pyodide \in {"null", "loaded"}
    /\ isLoading \in BOOLEAN /\ isRunning \in BOOLEAN
    /\ sysStdout \in {"orig", "cur", "old"} /\ sysStderr \in {"orig", "cur", "old"}
    /\ depth \in 0..MaxReqs
    /\ reqs \in 0..MaxReqs

\* ================================================================ properties
Hows == {"ok", "resetFails", "startFails"}
Sites(evs) == {evs[i].site : i \in 1..Len(evs)}
Done == last.phase = "done"
InitFailed == initPc = "done" /\ inits.loads = 1 /\ (pyodide = "null" \/ ~hasCapture)
\* the state in which runCode passes its guards
RunnerReady == ~isLoading /\ ~isRunning /\ depth = 0
\* everything a rejected request must leave alone
RunnerFrame == <<pyodide, hasCapture, isLoading, isRunning, loadingShown, runBtnDisabled,
                 status, overlayHidden, sysStdout, sysStderr, capture, calls, initPc, depth,
                 runEvents, last, writes, faults, inits, install>>

\* C1: at most one accepted run is in flight: no runCode invocation passes
\* its guards while another one is suspended in the evaluation, and in the
\* output element two 'running' lines always have an 'execution complete'
\* line between them.
MutualExclusion ==
    /\ depth <= 1
    /\ isRunning <=> depth = 1
    /\ \A i, j \in 1..Len(output) :
          (i < j /\ output[i].site = 491 /\ output[j].site = 491)
             => \E k \in (i + 1)..(j - 1) : output[k].site = 552

\* a second request arrived while a run was in flight and was turned away
MutualExclusionWitness ==
    /\ depth = 1 /\ isRunning /\ reqs >= 2
    /\ Len(output) > 0 /\ output[Len(output)].site = 476

\* C2: when no run is in progress and no capture call has raised, sys.stdout
\* and sys.stderr are the original sinks.
NoLeakedRedirection ==
    (depth = 0 /\ ~faults) => (sysStdout = "orig" /\ sysStderr = "orig")

\* a second run has ended by raising after writing to both streams
NoLeakedRedirectionWitness ==
    /\ depth = 0 /\ ~faults /\ Done /\ last.outcome = "raised"
    /\ last.stdout # <<>> /\ last.stderr # <<>>
    /\ sysStdout = "orig" /\ sysStderr = "orig"
    /\ \E i, j \in 1..Len(output) : i < j /\ output[i].site = 552 /\ output[j].site = 491

\* C3: isRunning is never left set when no run is on the stack, and every
\* run that has set it gets back to the state in which runCode accepts a
\* request.
RunReturnsToReady ==
    /\ [](depth = 0 => ~isRunning)
    /\ isRunning ~> RunnerReady

\* a run is being evaluated after an earlier run has ended with an error
RunReturnsToReadyWitness ==
    /\ depth = 1 /\ isRunning
    /\ \E i, j \in 1..Len(output) :
          /\ i < j /\ j = Len(output)
          /\ output[i].site \in {542, 546} /\ output[j].site = 491

\* C4: a runCode called while isRunning appends the one system line of
\* line 476 and changes nothing else.
RejectedWhileRunning ==
    [][\A origin \in Origins, src \in Sources, how \in Hows :
          (~isLoading /\ isRunning /\ RunCode(origin, src, how))
             => /\ output' = Append(output, [cls |-> "system", site |-> 476])
                /\ UNCHANGED RunnerFrame]_vars

\* the evaluation had written to stdout when the request was turned away
RejectedWhileRunningWitness ==
    /\ isRunning /\ runBtnDisabled /\ loadingShown /\ depth = 1
    /\ capture.stdout # <<>> /\ runEvents = <<Line(<<">>> Running Python code...">>, "system", 491)>>
    /\ Len(output) > 1 /\ output[Len(output)].site = 476

\* C5: a runCode called while isLoading appends the one system line of
\* line 471 and changes nothing else; in particular isRunning stays false.
RejectedWhileLoading ==
    [][\A origin \in Origins, src \in Sources, how \in Hows :
          (isLoading /\ RunCode(origin, src, how))
             => /\ output' = Append(output, [cls |-> "system", site |-> 471])
                /\ ~isRunning'
                /\ UNCHANGED RunnerFrame]_vars

\* a request was turned away before init had resumed
RejectedWhileLoadingWitness ==
    /\ isLoading /\ initPc = "awaitLoad" /\ ~isRunning
    /\ Len(output) > 0 /\ output[Len(output)].site = 471

\* C6: once init has failed no run is accepted: the 'running' line of
\* line 491 is never appended and the runner never is Running.
InitFailureTerminal ==
    InitFailed => (~isRunning /\ 491 \notin Sites(output))

Rank(site) ==
    CASE site = 491 -> 0
      [] site = 516 -> 1
      [] site \in {520, 542, 546} -> 2
      [] site = 525 -> 3
      [] site = 529 -> 4
      [] site = 552 -> 5
      [] OTHER -> 6

NumOfClass(evs, c) == Cardinality({i \in 1..Len(evs) : evs[i].cls = c})

\* C8: the events of a run start with a system message, end (once the run
\* is over) with a system message, and hold at most one stdout-class and at
\* most one stderr-class event.
EventShape ==
    /\ last.phase # "none" => runEvents[1].cls = "system"
    /\ Done => (Len(runEvents) >= 2 /\ runEvents[Len(runEvents)].cls = "system")
    /\ NumOfClass(runEvents, "stdout") <= 1
    /\ NumOfClass(runEvents, "stderr") <= 1

\* a finished run with one event of each class between its system messages
EventShapeWitness ==
    /\ Done /\ Len(runEvents) = 4
    /\ NumOfClass(runEvents, "stdout") = 1
    /\ NumOfClass(runEvents, "stderr") = 1
    /\ last.result # Null

\* C9: a run whose evaluation raised after writing to stdout (stderr) shows
\* a stdout (stderr) event with the trimmed captured text.
CapturedShownOnError ==
    (Done /\ last.outcome = "raised" /\ ~last.stopFailed)
       => /\ last.stdout # <<>> =>
                \E i \in 1..Len(runEvents) :
                   runEvents[i].cls = "stdout" /\ runEvents[i].text = Trim(last.stdout)
          /\ last.stderr # <<>> =>
                \E i \in 1..Len(runEvents) :
                   runEvents[i].cls = "stderr" /\ runEvents[i].text = Trim(last.stderr)

\* C10: 'no output' is shown exactly when the evaluation returned no value
\* and captured nothing, and never together with the stringified result.
NoOutputExclusive ==
    (Done /\ ~last.stopFailed /\ last.outcome # "captureStartFailed")
       => /\ 529 \in Sites(runEvents)
                <=> /\ last.outcome = "returned"
                    /\ last.stdout = <<>> /\ last.stderr = <<>>
                    /\ last.result = Null
          /\ ~(525 \in Sites(runEvents) /\ 529 \in Sites(runEvents))

\* C11: in every accepted run whose evaluation returned or raised, reset,
\* start_capture and stop_capture have each been called exactly once.
CapturePairedOnce ==
    (Done /\ last.outcome \in {"returned", "raised"} /\ ~last.stopFailed)
       => (calls.reset = 1 /\ calls.start = 1 /\ calls.stop = 1)

\* C12: a run accepted while sys.stdout and sys.stderr still point at
\* abandoned buffers captures exactly what its own evaluation wrote, and once
\* its stop_capture has run the streams are the original sinks.
ResetToleratesAbandoned ==
    (Done /\ last.abandoned /\ last.outcome \in {"returned", "raised"}
          /\ ~last.stopFailed /\ depth = 0)
       => /\ last.stdout = last.wroteOut /\ last.stderr = last.wroteErr
          /\ sysStdout = "orig" /\ sysStderr = "orig"

\* C13: when the stop of the capture raises, no event reports it: a run
\* whose evaluation raised shows that error, a run whose evaluation returned
\* shows no error event.
StopFailureSwallowed ==
    (Done /\ last.stopFailed)
       => /\ last.outcome = "raised" =>
                \E i \in 1..Len(runEvents) :
                   runEvents[i] = Line(formatPythonError(last.err), "stderr", 542)
          /\ last.outcome = "returned" =>
                \A i \in 1..Len(runEvents) : runEvents[i].site \notin {542, 546}

\* the half of C12 that the code keeps: the capture of a run that found the
\* streams redirected holds exactly what that run wrote
FreshCaptureAfterAbandon ==
    (Done /\ last.abandoned /\ last.outcome \in {"returned", "raised"})
       => (last.stdout = last.wroteOut /\ last.stderr = last.wroteErr)

\* C14: init is idempotent: loadPyodide is called once and one invocation
\* of init finishes, however often init is invoked.
InitOnce ==
    inits.loads = 1 /\ inits.settled <= 1 /\ inits.pending = 0

\* C15: isReady() is true exactly when init has finished with the
\* interpreter loaded and the capture environment set up.
IsReadyIffInitialized ==
    isReady <=> (initPc = "done" /\ pyodide = "loaded" /\ hasCapture)

\* C16: while a run is Running the event loop can still handle a
\* clear-output click.
EventLoopFree ==
    (isRunning /\ reqs < MaxReqs) => ENABLED clearOutput("event")

Running == Line(<<">>> Running Python code...">>, "system", 491)
IsSuffix(t, s) == Len(t) <= Len(s) /\ SubSeq(s, Len(s) - Len(t) + 1, Len(s)) = t

\* C17: a run whose evaluation raised without writing anything emitted
\* 'running', one stderr event that ends with the error's text, 'execution
\* complete', and the runner is Ready again.
RaisingRun ==
    (Done /\ last.outcome = "raised" /\ last.wroteOut = <<>> /\ last.wroteErr = <<>>)
       => /\ Len(runEvents) = 3
          /\ runEvents[1] = Running
          /\ runEvents[2].cls = "stderr" /\ IsSuffix(last.err, runEvents[2].text)
          /\ runEvents[3] = ExecutionComplete
          /\ RunnerReady

\* a silent evaluation raised an error without a traceback
RaisingRunWitness ==
    /\ Done /\ last.outcome = "raised" /\ last.wroteOut = <<>> /\ last.wroteErr = <<>>
    /\ last.err = <<"SyntaxError">>
    /\ runEvents[2].text = <<"Error: ", "SyntaxError">>

\* C18: a run whose evaluation wrote to stdout only, returned no value and
\* whose capture was stopped emitted 'running', the trimmed text as stdout,
\* 'execution complete', and the runner is Ready again.
PrintingRun ==
    (Done /\ last.outcome = "returned" /\ ~last.stopFailed /\ last.result = Null
          /\ last.wroteOut # <<>> /\ last.wroteErr = <<>>)
       => /\ runEvents = <<Running, Line(Trim(last.wroteOut), "stdout", 516), ExecutionComplete>>
          /\ RunnerReady

\* the evaluation printed hi and a newline
PrintingRunWitness ==
    /\ Done /\ last.outcome = "returned" /\ ~last.stopFailed /\ last.result = Null
    /\ last.wroteOut = <<"hi", "\n">> /\ last.wroteErr = <<>>
    /\ runEvents[2].text = <<"hi">>

\* C19: a run whose evaluation wrote nothing, returned no value and whose
\* capture was stopped emitted 'running', 'no output', 'execution complete'.
SilentRun ==
    (Done /\ last.outcome = "returned" /\ ~last.stopFailed /\ last.result = Null
          /\ last.wroteOut = <<>> /\ last.wroteErr = <<>>)
       => runEvents = <<Running,
                        Line(<<"Code executed successfully (no output)">>, "system", 529),
                        ExecutionComplete>>

\* a silent evaluation has returned
SilentRunWitness ==
    /\ Done /\ last.outcome = "returned" /\ ~last.stopFailed /\ last.result = Null
    /\ last.wroteOut = <<>> /\ last.wroteErr = <<>>
    /\ depth = 0 /\ Len(runEvents) = 3

\* C20 as stated: every outcome line of installPackage is system-class.
InstallOutcomeSystem ==
    \A i \in 1..Len(install.events) : install.events[i].cls = "system"

NumOf(seq, x) == Cardinality({i \in 1..Len(seq) : seq[i] = x})
NumAbout(evs, name) == Cardinality({i \in 1..Len(evs) : evs[i].text[2] = name})

\* C20 amended: every accepted installPackage(name) gets one outcome line
\* about name and never two: while the package loads none, then either the
\* system line of line 642 or a stderr line of line 644 or 647.
InstallOneOutcome ==
    /\ [](\A name \in PackageNames :
             NumAbout(install.events, name) + NumOf(install.pending, name)
                = NumOf(install.calls, name))
    /\ [](\A i \in 1..Len(install.events) :
             \/ install.events[i].cls = "system" /\ install.events[i].site = 642
             \/ install.events[i].cls = "stderr" /\ install.events[i].site \in {644, 647})
    /\ (install.pending # <<>>) ~> (install.pending = <<>>)

\* one package was installed and another one failed to load
InstallOneOutcomeWitness ==
    /\ install.pending = <<>> /\ Len(install.calls) = 2
    /\ \E i, j \in 1..Len(install.events) :
          install.events[i].site = 642 /\ install.events[j].site = 644

\* C21 as stated: the text that loadFromStorage puts in the editor on a page
\* load is the text the editor held when the page was left, whatever that
\* text was (the empty text included), as long as the storage has worked.
ContentRoundTrip ==
    [][(~storageFault /\ PageLoad(TRUE)) => editorContent' = editorContent]_vars

\* C22 as stated: between operations the file name in local storage is the
\* editor's fileName, as long as the storage has worked.
FileNameInStep ==
    ~storageFault => localStorage.editor_filename = <<fileName>>

\* C23: the stderr line of a run whose evaluation raised holds the error's
\* string form as it is when that contains 'Traceback', and with 'Error: ' in
\* front of it otherwise.
ErrorFormatted ==
    (Done /\ last.outcome = "raised")
       => \E i \in 1..Len(runEvents) :
             /\ runEvents[i].site = 542 /\ runEvents[i].cls = "stderr"
             /\ runEvents[i].text = IF \E k \in 1..Len(last.err) : last.err[k] = "Traceback"
                                    THEN last.err
                                    ELSE <<"Error: ">> \o last.err

\* an evaluation has raised an error whose string form holds a traceback
ErrorFormattedWitness ==
    /\ Done /\ last.outcome = "raised"
    /\ last.err = <<"Traceback", "ZeroDivisionError">>
    /\ runEvents[Len(runEvents) - 1].text = <<"Traceback", "ZeroDivisionError">>

\* C24 as stated: whenever a call of appendOutput has returned, the output
\* element holds at most 1000 lines.
OutputBounded ==
    [][(\E type \in {"stdout"} : AppendOutputCall(type)) => Len(output') <= 1000]_vars

Blank(src) == \A i \in 1..Len(src) : src[i] \in {" ", "\n"}

\* C25: a runCode called with empty or blank editor text, when the runner
\* is neither loading nor running, appends the one system line of line 482
\* and changes nothing else: isRunning stays false, the capture, the run
\* button and the loading indicator are left alone, and no 'running' or
\* 'execution complete' line appears.
BlankSourceRejected ==
    [][\A origin \in Origins, src \in Sources, how \in Hows :
          (~isLoading /\ ~isRunning /\ Blank(src) /\ RunCode(origin, src, how))
             => /\ output' = Append(output, [cls |-> "system", site |-> 482])
                /\ ~isRunning'
                /\ UNCHANGED RunnerFrame]_vars

\* a blank request was turned away by a loaded runner after a finished run
BlankSourceRejectedWitness ==
    /\ pyodide = "loaded" /\ ~isLoading /\ ~isRunning /\ depth = 0 /\ Done
    /\ Len(output) > 1 /\ output[Len(output)].site = 482
    /\ output[Len(output) - 1].site = 552

\* C26 as stated: hasUnsavedChanges is set exactly when the user has changed
\* the text since the page load, newFile, saveFile or file load that came
\* last, so that the page asks before it is left only after such a change.
UnsavedIffEdited ==
    /\ hasUnsavedChanges <=> edited
    /\ LeaveWarning => edited

\* C27 as stated: for every line of the editor that is no comment and does
\* not end in white space, toggling the comment twice gives the line back.
ToggleRoundTrip ==
    \A i \in 1..Len(SplitLines(editorContent)) :
       LET line == SplitLines(editorContent)[i]
       IN  (~IsComment(line) /\ TrimEnd(line) = line) => newLine(newLine(line)) = line

\* the size the mousemove listener reads, the position it takes from the
\* event and the minimum it keeps, by revision and window
Axis == IF revision = "part_000" /\ innerWidth <= 768 THEN "offsetHeight" ELSE "offsetWidth"
Coord(x, y) == IF Axis = "offsetHeight" THEN y ELSE x
MinSize == IF revision = "script.js" THEN 250 ELSE IF innerWidth <= 768 THEN 200 ELSE 280
ResizeFrame == <<editorPanel, outputPanel, localStorage, lastX, isResizing>>

\* C28: a mousemove outside a drag changes nothing; a mousemove of a drag
\* that would make the editor or the output panel smaller than the minimum
\* changes neither the flex values nor the saved layout nor the reference
\* position; and every mousemove that changes a panel leaves both panels at
\* or above the minimum.
ResizeKeepsMinimum ==
    [][\A x \in Pointers, y \in Pointers, ok \in BOOLEAN :
          mousemove(x, y, ok)
             => /\ ~isResizing => UNCHANGED ResizeFrame
                /\ (isResizing /\ (\/ editorPanel[Axis] + (Coord(x, y) - lastX) < MinSize
                                   \/ outputPanel[Axis] - (Coord(x, y) - lastX) < MinSize))
                      => UNCHANGED ResizeFrame
                /\ editorPanel' # editorPanel
                      => (editorPanel'[Axis] >= MinSize /\ outputPanel'[Axis] >= MinSize)]_vars

\* a drag has moved the panels and its last mousemove was turned down
ResizeKeepsMinimumWitness ==
    /\ isResizing /\ lastMove = "rejected"
    /\ editorPanel.flex # <<>> /\ localStorage[
          IF revision = "script.js" THEN "editor_layout"
          ELSE IF innerWidth <= 768 THEN "editor_layout_mobile"
          ELSE "editor_layout_desktop"] # <<>>

\* C29 as stated: in the mobile layout of part_000 every mousemove of a
\* drag that changes anything changes the height of the editor panel by the
\* vertical movement of the pointer since the reference position, and the
\* height of the output panel by the opposite.
MobileFollowsPointer ==
    [][\A x \in Pointers, y \in Pointers, ok \in BOOLEAN :
          (/\ revision = "part_000" /\ innerWidth <= 768 /\ isResizing
           /\ mousemove(x, y, ok)
           /\ <<editorPanel, outputPanel, lastX, refY>>' # <<editorPanel, outputPanel, lastX, refY>>)
             => /\ editorPanel'.offsetHeight - editorPanel.offsetHeight = y - refY
                /\ outputPanel'.offsetHeight - outputPanel.offsetHeight = refY - y]_vars

====
